---- MODULE Spec2Model ----
(***************************************************************************)
(* Model of agent-dashboard/agent/python_agent/collector.py: the per-pid   *)
(* CPU delta computation, the snapshot assembly over five sub-sources, the *)
(* HTTP delivery and the polling loop of main().                           *)
(*                                                                         *)
(* Conventions.  Python's Optional is a sequence of length 0 or 1: None is *)
(* << >> and a present value v is <<v>>.  Times, CPU-seconds and byte      *)
(* counts are integers.  A float quotient is kept as the exact reduced     *)
(* fraction <<numerator, denominator>>, so 50.0 is <<50, 1>>.  A Python    *)
(* dict is a function whose DOMAIN is the key set.                         *)
(***************************************************************************)
EXTENDS FiniteSets, Integers, Sequences, TLC

VARIABLES
    clock,                  \* what time.time() returns when read
    PREVIOUS_CPU_TIMES,     \* module global, line 17
    PREVIOUS_COLLECTED_AT,  \* module global, line 18
    pc,                     \* position of the single thread of control
    started,                \* main: local of the loop body, line 321
    now,                    \* _collect_snapshot: local, line 265
    interval,               \* _collect_snapshot: local, lines 266-270
    processes,              \* what _collect_processes last returned, line 276
    snapshot,               \* main: local, line 323
    exc,                    \* the exception caught at line 330
    log,                    \* lines printed since the cycle began
    sleep_time,             \* main: local, line 334
    listing,                \* history: the JSON data the process loop of the latest collection iterated
    last_call,              \* history: outcome of the latest external call
    all_failed,             \* history: every sub-source so far this cycle failed
    baseline_at,            \* history: pid -> `now` of the collection that stored its baseline
    host_table,             \* history: the process table Get-Process last read
    set_backs,              \* history: how often the wall clock was set back
    known_before,           \* history: the pids with a baseline when the latest collection began
    obs,                    \* history: the latest single observation and its result
    cores,                  \* _collect_processes: the local cpu_count, line 174
    host_cores,             \* history: what os.cpu_count() returned at line 174
    twin,                   \* a second run of the agent on the same source outputs and clock readings
    attempts,               \* history: the calls of _post_snapshot since the cycle began at line 321
    sources                 \* history: what the five commands of the latest collection met

vars == <<clock, PREVIOUS_CPU_TIMES, PREVIOUS_COLLECTED_AT, pc,
          started, now, interval, processes, snapshot, exc, log, sleep_time, listing, last_call, all_failed, baseline_at,
          host_table, set_backs, known_before, obs, cores, host_cores, twin, attempts, sources>>

----------------------------------------------------------------------------
(* Values *)

None == << >>
Some(v) == <<v>>

Max(a, b) == IF a >= b THEN a ELSE b
Min(a, b) == IF a <= b THEN a ELSE b

RECURSIVE Gcd(_, _)
Gcd(a, b) == IF b = 0 THEN a ELSE Gcd(b, a % b)

Abs(a) == IF a < 0 THEN -a ELSE a

\* Python's n / d raises ZeroDivisionError for d = 0
DivisionByZero == <<0, 0>>

\* The float n / d as a reduced fraction with a positive denominator
Quotient(n, d) ==
    IF d = 0 THEN DivisionByZero
    ELSE LET g == Gcd(Abs(n), Abs(d))
             sign == IF d < 0 THEN -1 ELSE 1
         IN <<(sign * n) \div g, (sign * d) \div g>>

EmptyDict == << >>
DictGet(d, k) == IF k \in DOMAIN d THEN Some(d[k]) ELSE None
\* a store that keeps no other key
DictSetAlone(d, k, v) == [x \in {k} |-> v]

DictSet(d, k, v) == [x \in (DOMAIN d) \cup {k} |-> IF x = k THEN v ELSE d[x]]

----------------------------------------------------------------------------
(* _collect_processes: the per-process delta computation, lines 174-202 *)

\* line 174 without the fallback: os.cpu_count() or 0
CpuCountNoFallback(os_cpu_count) ==
    IF os_cpu_count = None THEN 0 ELSE os_cpu_count[1]

\* line 174: os.cpu_count() or 1
CpuCount(os_cpu_count) ==
    IF os_cpu_count = None \/ os_cpu_count = Some(0) THEN 1 ELSE os_cpu_count[1]

\* lines 191-194: float(cpu_time or 0.0)
CpuSeconds(cpu_time) == IF cpu_time = None THEN 0 ELSE cpu_time[1]

\* line 199, with the clamp left out
DeltaUnclamped(cpu_seconds, previous) == cpu_seconds - previous

\* line 199: delta = max(cpu_seconds - previous_cpu, 0.0)
Delta(cpu_seconds, previous) == Max(cpu_seconds - previous, 0)

\* lines 196-200, without the test of the interval at line 198
CpuPercentUnguarded(previous_cpu, cpu_seconds, interval_seconds, cpu_count) ==
    IF previous_cpu # None
    THEN Some(Quotient(Delta(cpu_seconds, previous_cpu[1]) * 100,
                       interval_seconds * cpu_count))
    ELSE None

\* lines 196-200: previous_cpu is what _PREVIOUS_CPU_TIMES.get(pid_int)
\* returned; Some(DivisionByZero) stands for the division at line 200 raising
CpuPercent(previous_cpu, cpu_seconds, interval_seconds, cpu_count) ==
    IF previous_cpu # None /\ interval_seconds > 0
    THEN Some(Quotient(Delta(cpu_seconds, previous_cpu[1]) * 100,
                       interval_seconds * cpu_count))
    ELSE None

\* line 202, storing only when a percentage was computed
StoreBaselineWhenComputed(previous, pid_int, cpu_seconds, percent) ==
    IF percent = None /\ pid_int \in DOMAIN previous
    THEN previous
    ELSE DictSet(previous, pid_int, cpu_seconds)

\* line 202: _PREVIOUS_CPU_TIMES[pid_int] = cpu_seconds, whatever the percentage
StoreBaseline(previous, pid_int, cpu_seconds, percent) ==
    DictSet(previous, pid_int, cpu_seconds)

\* lines 204-209: float(working_set) / (1024 * 1024)
MemoryMb(working_set) ==
    IF working_set = None THEN None ELSE Some(Quotient(working_set[1], 1048576))

\* lines 177-218, appending the entry once more where the percentage is
\* computed (line 200)
RECURSIVE ProcessLoopAppendTwice(_, _, _, _, _)
ProcessLoopAppendTwice(data, previous, results, interval_seconds, cpu_count) ==
    IF data = << >>
    THEN [raised |-> "none", previous |-> previous, results |-> results]
    ELSE LET process == Head(data) IN
         IF process.type # "object"
         THEN [raised |-> "AttributeError", previous |-> previous, results |-> results]
         ELSE IF process.Id = None \/ process.ProcessName = None
         THEN ProcessLoopAppendTwice(Tail(data), previous, results, interval_seconds,
                                     cpu_count)
         ELSE LET pid_int == process.Id[1]
                  cpu_seconds == CpuSeconds(process.CPU)
                  percent == CpuPercent(DictGet(previous, pid_int), cpu_seconds,
                                        interval_seconds, cpu_count)
                  entry == [pid |-> pid_int,
                            name |-> process.ProcessName[1],
                            cpu_percent |-> percent,
                            memory_mb |-> MemoryMb(process.WorkingSet64)]
              IN IF percent = Some(DivisionByZero)
                 THEN [raised |-> "ZeroDivisionError", previous |-> previous,
                       results |-> results]
                 ELSE ProcessLoopAppendTwice(Tail(data),
                                  StoreBaseline(previous, pid_int, cpu_seconds, percent),
                                  (IF percent = None THEN results
                                   ELSE Append(results, entry)) \o <<entry>>,
                                  interval_seconds, cpu_count)

\* lines 177-218: the loop over the listing.  An element that is no JSON
\* object has no .get and raises AttributeError at line 178; what the loop
\* stored before an exception stays stored.
RECURSIVE ProcessLoop(_, _, _, _, _)
ProcessLoop(data, previous, results, interval_seconds, cpu_count) ==
    IF data = << >>
    THEN [raised |-> "none", previous |-> previous, results |-> results]
    ELSE LET process == Head(data) IN
         IF process.type # "object"
         THEN [raised |-> "AttributeError", previous |-> previous, results |-> results]
         ELSE IF process.Id = None \/ process.ProcessName = None
         THEN ProcessLoop(Tail(data), previous, results, interval_seconds, cpu_count)
         ELSE LET pid_int == process.Id[1]
                  cpu_seconds == CpuSeconds(process.CPU)
                  percent == CpuPercent(DictGet(previous, pid_int), cpu_seconds,
                                        interval_seconds, cpu_count)
              IN IF percent = Some(DivisionByZero)
                 THEN [raised |-> "ZeroDivisionError", previous |-> previous,
                       results |-> results]
                 ELSE ProcessLoop(Tail(data),
                                  StoreBaseline(previous, pid_int, cpu_seconds, percent),
                                  Append(results,
                                         [pid |-> pid_int,
                                          name |-> process.ProcessName[1],
                                          cpu_percent |-> percent,
                                          memory_mb |-> MemoryMb(process.WorkingSet64)]),
                                  interval_seconds, cpu_count)

----------------------------------------------------------------------------
(* External commands.  What subprocess.run met is a record: kind is one of *)
(* "missing_tool" (the executable cannot be started), "nonzero_exit", and,  *)
(* for an exit status of 0, what stdout held: "stdout" for wmic's          *)
(* key=value lines, and for ConvertTo-Json "empty_output", "invalid_json", *)
(* "json_scalar", "json_object" (items holds the one object) and           *)
(* "json_array".                                                           *)

Result(kind, items) == [kind |-> kind, items |-> items]

\* lines 21-32: subprocess.run raises FileNotFoundError when the executable
\* is missing; a non-zero return code becomes RuntimeError
RunCommand(r) ==
    IF r.kind = "missing_tool" THEN "FileNotFoundError"
    ELSE IF r.kind = "nonzero_exit" THEN "RuntimeError"
    ELSE "none"

\* lines 35-43
RunPowershell(r) == RunCommand(r)

Returned(v) == [raised |-> "none", value |-> v]
Raises(e, v) == [raised |-> e, value |-> v]

\* lines 46-59: r.items holds, for each LoadPercentage= line in order, the
\* number it carries, or None when float() rejects it
CollectCpuPercent(r) ==
    LET e == RunCommand(r) IN
    IF e = "RuntimeError" THEN Returned(None)
    ELSE IF e # "none" THEN Raises(e, None)
    ELSE IF r.items = << >> THEN Returned(None)
    ELSE Returned(r.items[1])

NoMemory == [total_bytes |-> None, used_bytes |-> None]

\* lines 62-98: r.items is <<total_kb, free_kb>>, each None when its line is
\* missing or float() rejects it
CollectMemory(r) ==
    LET e == RunCommand(r) IN
    IF e = "RuntimeError" THEN Returned(NoMemory)
    ELSE IF e # "none" THEN Raises(e, NoMemory)
    ELSE LET total_kb == r.items[1]
             free_kb == r.items[2]
         IN IF total_kb = None \/ free_kb = None
            THEN Returned(NoMemory)
            ELSE Returned([total_bytes |-> Some(total_kb[1] * 1024),
                           used_bytes |-> Some(Max(total_kb[1] * 1024
                                                   - free_kb[1] * 1024, 0))])

\* lines 120-125, 167-172, 241-246: a dict is wrapped in a list, a list is
\* taken as it is
JsonList(r) == r.items

\* lines 128-143
RECURSIVE DiskLoop(_, _)
DiskLoop(data, result) ==
    IF data = << >> THEN [raised |-> FALSE, result |-> result]
    ELSE LET disk == Head(data) IN
         IF disk.type # "object" THEN [raised |-> TRUE, result |-> result]
         ELSE IF disk.DeviceID = None \/ disk.Size = None \/ disk.FreeSpace = None
         THEN DiskLoop(Tail(data), result)
         ELSE DiskLoop(Tail(data),
                       Append(result, [device |-> disk.DeviceID[1],
                                       total_bytes |-> disk.Size[1],
                                       free_bytes |-> disk.FreeSpace[1]]))

\* lines 101-144
CollectDisks(r) ==
    LET e == RunPowershell(r) IN
    IF e = "RuntimeError" THEN Returned(<< >>)
    ELSE IF e # "none" THEN Raises(e, << >>)
    ELSE IF r.kind \in {"empty_output", "invalid_json", "json_scalar"}
    THEN Returned(<< >>)
    ELSE LET l == DiskLoop(JsonList(r), << >>) IN
         IF l.raised THEN Raises("AttributeError", << >>) ELSE Returned(l.result)

\* line 253: str(event.get("Id")) if event.get("Id") is not None else None
EventId(id) == IF id = None THEN None ELSE Some(ToString(id[1]))

\* lines 248-258
RECURSIVE EventLoop(_, _)
EventLoop(data, result) ==
    IF data = << >> THEN [raised |-> FALSE, result |-> result]
    ELSE LET event == Head(data) IN
         IF event.type # "object" THEN [raised |-> TRUE, result |-> result]
         ELSE EventLoop(Tail(data),
                        Append(result, [timestamp |-> event.TimeCreated,
                                        id |-> EventId(event.Id),
                                        level |-> event.LevelDisplayName,
                                        source |-> event.ProviderName,
                                        message |-> event.Message]))

\* lines 223-259
CollectEvents(r) ==
    LET e == RunPowershell(r) IN
    IF e = "RuntimeError" THEN Returned(<< >>)
    ELSE IF e # "none" THEN Raises(e, << >>)
    ELSE IF r.kind \in {"empty_output", "invalid_json", "json_scalar"}
    THEN Returned(<< >>)
    ELSE LET l == EventLoop(JsonList(r), << >>) IN
         IF l.raised THEN Raises("AttributeError", << >>) ELSE Returned(l.result)

\* lines 147-220: value is the returned list, previous the dict afterwards
\* lines 147-220, keeping only the baselines of the pids of this listing
CollectProcessesEvict(r, previous, interval_seconds, os_cpu_count) ==
    LET e == RunPowershell(r) IN
    IF e = "RuntimeError" THEN [raised |-> "none", value |-> << >>, previous |-> previous]
    ELSE IF e # "none" THEN [raised |-> e, value |-> << >>, previous |-> previous]
    ELSE IF r.kind \in {"empty_output", "invalid_json", "json_scalar"}
    THEN [raised |-> "none", value |-> << >>, previous |-> previous]
    ELSE LET l == ProcessLoop(JsonList(r), previous, << >>, interval_seconds,
                              CpuCount(os_cpu_count))
             kept == [p \in {l.results[i].pid : i \in 1..Len(l.results)} |-> l.previous[p]]
         IN IF l.raised # "none"
            THEN [raised |-> l.raised, value |-> << >>, previous |-> kept]
            ELSE [raised |-> "none", value |-> l.results, previous |-> kept]

CollectProcesses(r, previous, interval_seconds, os_cpu_count) ==
    LET e == RunPowershell(r) IN
    IF e = "RuntimeError" THEN [raised |-> "none", value |-> << >>, previous |-> previous]
    ELSE IF e # "none" THEN [raised |-> e, value |-> << >>, previous |-> previous]
    ELSE IF r.kind \in {"empty_output", "invalid_json", "json_scalar"}
    THEN [raised |-> "none", value |-> << >>, previous |-> previous]
    ELSE LET l == ProcessLoop(JsonList(r), previous, << >>, interval_seconds,
                              CpuCount(os_cpu_count))
         IN IF l.raised # "none"
            THEN [raised |-> l.raised, value |-> << >>, previous |-> l.previous]
            ELSE [raised |-> "none", value |-> l.results, previous |-> l.previous]

----------------------------------------------------------------------------
(* The PowerShell pipeline of lines 150-154, run over the host's process   *)
(* table: a set of Get-Process objects, one per running pid                *)

MAX_PROCESSES == 2

Process(pid, cpu) ==
    [type |-> "object", Id |-> Some(pid), ProcessName |-> Some("proc"),
     CPU |-> cpu, WorkingSet64 |-> Some(2097152)]

\* every process table: each pid is not running, or runs with some CPU value
ProcessTables(pids, cpus) ==
    UNION {{{Process(p, f[p]) : p \in running} : f \in [running -> cpus]} :
           running \in SUBSET pids}

\* Sort-Object compares $null below every number
SortKey(process) == IF process.CPU = None THEN -1 ELSE process.CPU[1]

Orderings(table) ==
    {s \in [1..Cardinality(table) -> table] :
        \A i, j \in 1..Cardinality(table) : i # j => s[i] # s[j]}

\* line 152, sorting ascending
SortObjectCpuAscending(table) ==
    {s \in Orderings(table) :
        \A i, j \in 1..Len(s) : i < j => SortKey(s[i]) <= SortKey(s[j])}

\* line 152: Sort-Object CPU -Descending; the order among equal keys is
\* whatever Sort-Object leaves, so every such order is possible
SortObjectCpuDescending(table) ==
    {s \in Orderings(table) :
        \A i, j \in 1..Len(s) : i < j => SortKey(s[i]) >= SortKey(s[j])}

\* line 153, taking every object
SelectAll(s, n) == s

\* line 153: Select-Object -First n
SelectFirst(s, n) == SubSeq(s, 1, Min(n, Len(s)))

\* line 154: ConvertTo-Json prints nothing for no object, a bare JSON object
\* for one and a JSON array for more
ConvertToJson(s) ==
    IF Len(s) = 0 THEN Result("empty_output", << >>)
    ELSE IF Len(s) = 1 THEN Result("json_object", s)
    ELSE Result("json_array", s)

\* lines 150-154: every stdout the pipeline can print for a process table
GetProcessPipeline(table) ==
    {ConvertToJson(SelectFirst(s, MAX_PROCESSES)) : s \in SortObjectCpuDescending(table)}

----------------------------------------------------------------------------
(* The state before main() runs *)

NoObservation ==
    [pid |-> 0, cpu_seconds |-> 0, elapsed |-> 0, cores |-> 0,
     result |-> None, earlier |-> None, latest |-> EmptyDict]

NoCall == [source |-> "none", kind |-> "none", status |-> 0]

\* the second run before its main() runs: its two globals (lines 17-18), the
\* snapshot of its latest collection, what that collection raised, what its
\* latest delivery raised, and whether a delivery of the two runs ever ended
\* differently
NoTwin ==
    [PREVIOUS_CPU_TIMES |-> EmptyDict, PREVIOUS_COLLECTED_AT |-> None,
     snapshot |-> None, raised |-> "none", delivery |-> "none", differed |-> FALSE]

NoSources ==
    [cpu |-> Result("none", << >>), memory |-> Result("none", << >>),
     disks |-> Result("none", << >>), processes |-> Result("none", << >>),
     events |-> Result("none", << >>)]

InitGlobals ==
    /\ clock = 0
    /\ PREVIOUS_CPU_TIMES = EmptyDict
    /\ PREVIOUS_COLLECTED_AT = None
    /\ started = None
    /\ now = None
    /\ interval = None
    /\ processes = << >>
    /\ snapshot = None
    /\ exc = None
    /\ log = << >>
    /\ sleep_time = None
    /\ listing = << >>
    /\ last_call = NoCall
    /\ all_failed = FALSE
    /\ baseline_at = EmptyDict
    /\ host_table = {}
    /\ set_backs = 0
    /\ known_before = {}
    /\ obs = NoObservation
    /\ cores = None
    /\ host_cores = None
    /\ twin = NoTwin
    /\ attempts = 0
    /\ sources = NoSources

----------------------------------------------------------------------------
(* _collect_snapshot, lines 262-297 *)

AGENT_ID == "agent-1"
HOSTNAME == "host-1"

\* lines 266-270 taking the nominal interval in every call
IntervalNominal(t, previous_collected_at, poll_interval) == poll_interval

\* lines 266-270
IntervalOf(t, previous_collected_at, poll_interval) ==
    IF previous_collected_at # None THEN t - previous_collected_at[1] ELSE poll_interval

\* lines 285-297; collected_at is the UTC second of `now`, which strftime
\* prints digit for digit
Snapshot(t, ip_address, cpu, mem, dsk, procs, evts) ==
    [agent_id |-> AGENT_ID,
     hostname |-> HOSTNAME,
     ip |-> ip_address,
     collected_at |-> t,
     metrics |-> [cpu_percent |-> cpu, memory |-> mem, disks |-> dsk],
     processes |-> procs,
     events |-> evts]

\* The first exception among the five calls, in call order (lines 273-277)
FirstRaised(outcomes) ==
    IF \A i \in 1..Len(outcomes) : outcomes[i] = "none"
    THEN "none"
    ELSE outcomes[CHOOSE i \in 1..Len(outcomes) :
                      /\ outcomes[i] # "none"
                      /\ \A j \in 1..(i - 1) : outcomes[j] = "none"]

\* lines 262-297 for the clock reading t.  env holds what each of the five
\* commands met, os.cpu_count() and the address gethostbyname resolved.
\* previous_cpu is the dict after the call: _collect_processes runs only when
\* the three calls before it returned.
CollectSnapshot(env, t, previous_collected_at, previous_cpu, poll_interval) ==
    LET interval_seconds == IntervalOf(t, previous_collected_at, poll_interval)
        c == CollectCpuPercent(env.cpu)
        m == CollectMemory(env.memory)
        d == CollectDisks(env.disks)
        p == CollectProcesses(env.processes, previous_cpu, interval_seconds,
                              env.os_cpu_count)
        e == CollectEvents(env.events)
        before_processes == FirstRaised(<<c.raised, m.raised, d.raised>>)
    IN [raised |-> FirstRaised(<<c.raised, m.raised, d.raised, p.raised, e.raised>>),
        interval |-> interval_seconds,
        previous_collected_at |-> Some(t),
        ran_processes |-> before_processes = "none",
        previous_cpu |-> IF before_processes = "none" THEN p.previous ELSE previous_cpu,
        processes |-> p,
        snapshot |-> Snapshot(t, env.ip, c.value, m.value, d.value, p.value, e.value)]

----------------------------------------------------------------------------
(* _post_snapshot, lines 300-313 *)

\* line 311: urllib.request.urlopen(request, timeout=15) with the default
\* opener.  outcome is what the server did with the POST: it answered with a
\* status, it could not be reached (URLError), or it did not answer within
\* the 15 seconds (TimeoutError).  An answer whose status is outside 200..299
\* and that is no redirect urlopen follows is raised as HTTPError; only a
\* 2xx answer comes back as the response object.
Urlopen(outcome) ==
    IF outcome.kind # "response" THEN [raised |-> outcome.kind, status |-> 0]
    ELSE IF outcome.status >= 200 /\ outcome.status < 300
         THEN [raised |-> "none", status |-> outcome.status]
    ELSE [raised |-> "HTTPError", status |-> outcome.status]

\* lines 300-313: the exception _post_snapshot raises, "none" when it
\* returns.  Nothing in it catches what urlopen raises; lines 312-313 raise
\* RuntimeError for a response object with a status of 400 or more.
PostSnapshot(payload, outcome) ==
    LET response == Urlopen(outcome)
    IN IF response.raised # "none" THEN response.raised
       ELSE IF response.status >= 400 THEN "RuntimeError"
       ELSE "none"

----------------------------------------------------------------------------
(* main, lines 320-335 *)

\* line 13: INGEST_INTERVAL, by default
POLL_INTERVAL == 30

MinimumSleep == 5

\* line 334 without the floor
SleepTimeNoFloor(poll_interval, elapsed) == poll_interval - elapsed

\* line 334: max(POLL_INTERVAL - elapsed, 5)
SleepTime(poll_interval, elapsed) == Max(poll_interval - elapsed, MinimumSleep)

\* lines 325-329 naming the host instead of the agent
SuccessLineHostname(snap) ==
    [stream |-> "stdout", text |-> "Sent metrics for", detail |-> snap.hostname]

\* lines 325-329
SuccessLine(snap) ==
    [stream |-> "stdout", text |-> "Sent metrics for", detail |-> snap.agent_id]

\* line 331: the line printed to stderr; str(exc), the text of the exception, is
\* told by the exception's type
ErrorLine(e) ==
    [stream |-> "stderr", text |-> "Error collecting or sending metrics",
     detail |-> e.type]

----------------------------------------------------------------------------
(* What the host can present to one cycle *)

MaxClock == 60
MaxSetBacks == 1
ClockSetBacks == {30, 60}
CollectLatencies == {0, 35}

NotAnObject ==
    [type |-> "number", Id |-> None, ProcessName |-> None, CPU |-> None,
     WorkingSet64 |-> None]

Disk(device, size, free) ==
    [type |-> "object", DeviceID |-> Some(device), Size |-> Some(size),
     FreeSpace |-> Some(free)]

NoDisk == [type |-> "number", DeviceID |-> None, Size |-> None, FreeSpace |-> None]

Event(id) ==
    [type |-> "object", TimeCreated |-> Some("2024-01-01T00:00:00"), Id |-> id,
     LevelDisplayName |-> Some("Error"), ProviderName |-> Some("disk"),
     Message |-> Some("bad block")]

NoEvent ==
    [type |-> "number", TimeCreated |-> None, Id |-> None, LevelDisplayName |-> None,
     ProviderName |-> None, Message |-> None]

\* the four sources other than the process listing, and the address lookup
Healthy ==
    [cpu |-> Result("stdout", <<Some(37)>>),
     memory |-> Result("stdout", <<Some(4), Some(1)>>),
     disks |-> Result("json_object", <<Disk("C:", 100, 40)>>),
     events |-> Result("json_array", <<Event(Some(7)), Event(None)>>),
     ip |-> Some("192.0.2.10")]

NonZeroExits ==
    [cpu |-> Result("nonzero_exit", << >>),
     memory |-> Result("nonzero_exit", << >>),
     disks |-> Result("nonzero_exit", << >>),
     events |-> Result("nonzero_exit", << >>),
     ip |-> None]

MalformedOutputs ==
    [cpu |-> Result("stdout", <<None>>),
     memory |-> Result("stdout", <<Some(4), None>>),
     disks |-> Result("invalid_json", << >>),
     events |-> Result("json_scalar", << >>),
     ip |-> None]

WmicMissing ==
    [cpu |-> Result("missing_tool", << >>),
     memory |-> Result("missing_tool", << >>),
     disks |-> Result("json_object", <<Disk("C:", 100, 40)>>),
     events |-> Result("empty_output", << >>),
     ip |-> Some("192.0.2.10")]

EventsNotObjects ==
    [cpu |-> Result("stdout", << >>),
     memory |-> Result("stdout", <<Some(1), Some(4)>>),
     disks |-> Result("json_array", <<Disk("C:", 100, 40), Disk("D:", 50, 50)>>),
     events |-> Result("json_array", <<NoEvent>>),
     ip |-> Some("192.0.2.10")]

OtherSources == {Healthy, NonZeroExits, MalformedOutputs, WmicMissing, EventsNotObjects}

LoopCpuCounts == {Some(2)}

\* pid 1 is not running or has used 1 or 3 CPU-seconds; pid 2 is not running
\* or has used 3
LoopTables ==
    {t1 \cup t2 : t1 \in {{}, {Process(1, Some(1))}, {Process(1, Some(3))}},
                  t2 \in {{}, {Process(2, Some(3))}}}

\* the process source: a process table with what the pipeline prints for it,
\* or a failure of the command
ProcessRuns ==
    UNION {{<<table, stdout>> : stdout \in GetProcessPipeline(table)} :
           table \in LoopTables}
    \cup {<<{}, Result(k, << >>)>> : k \in {"missing_tool", "nonzero_exit", "invalid_json"}}
    \cup {<<{}, Result("json_array", <<Process(1, Some(3)), NotAnObject>>)>>}

Environment(other, run, n) ==
    [cpu |-> other.cpu, memory |-> other.memory, disks |-> other.disks,
     processes |-> run[2], events |-> other.events, ip |-> other.ip,
     os_cpu_count |-> n, table |-> run[1]]

LoopEnvironments ==
    {Environment(other, run, n) :
        other \in OtherSources, run \in ProcessRuns, n \in LoopCpuCounts}

\* a source failed: its tool is missing, it exited non-zero, or what it
\* printed could not be used
SourceFailed(r) ==
    \/ r.kind \in {"missing_tool", "nonzero_exit", "empty_output", "invalid_json",
                   "json_scalar"}
    \/ r.kind = "stdout" /\ (r.items = << >> \/ \E i \in 1..Len(r.items) : r.items[i] = None)
    \/ r.kind \in {"json_object", "json_array"}
       /\ \E i \in 1..Len(r.items) : r.items[i].type # "object"

\* line 311, timeout=15
UrlopenTimeout == 15

\* the server answers the POST with status st after s seconds
Answered(st, s) == [kind |-> "response", status |-> st, seconds |-> s]
\* the server cannot be reached
Unreachable == [kind |-> "URLError", status |-> 0, seconds |-> 0]
\* the server accepts the connection and never answers
NoAnswer == [kind |-> "TimeoutError", status |-> 0, seconds |-> UrlopenTimeout]

AnsweredStatuses == {200, 204, 304, 399, 400, 500}

PostOutcomes ==
    {Answered(st, 0) : st \in AnsweredStatuses}
    \cup {Answered(200, UrlopenTimeout), Unreachable, NoAnswer}

----------------------------------------------------------------------------
(* Spec: the polling loop of main().  pc is "loop_top" at line 321, "post" *)
(* at line 324 once _collect_snapshot has returned, "except" at line 330   *)
(* and "sleeping" at line 335.                                             *)

\* the pids whose baseline one run of lines 177-202 stores
RECURSIVE StoredPids(_)
StoredPids(data) ==
    IF data = << >> \/ Head(data).type # "object" THEN {}
    ELSE (IF Head(data).Id = None \/ Head(data).ProcessName = None
          THEN {} ELSE {Head(data).Id[1]})
         \cup StoredPids(Tail(data))

RanProcessLoop(r) == r.kind \in {"json_object", "json_array"}

Init ==
    /\ InitGlobals
    /\ pc = "loop_top"

\* lines 321-323: started = time.time(); snapshot = _collect_snapshot(), whose
\* commands take d seconds together
CollectCall(env, d) ==
    /\ pc = "loop_top"
    /\ clock + d <= MaxClock
    /\ clock' = clock + d
    /\ \E r \in {CollectSnapshot(env, clock, PREVIOUS_COLLECTED_AT,
                                  PREVIOUS_CPU_TIMES, POLL_INTERVAL)} :
       LET looped == r.ran_processes /\ RanProcessLoop(env.processes)
           stored == IF looped THEN StoredPids(JsonList(env.processes)) ELSE {}
       IN /\ started' = Some(clock)
          /\ now' = Some(clock)
          /\ interval' = Some(r.interval)
          /\ PREVIOUS_COLLECTED_AT' = r.previous_collected_at
          /\ PREVIOUS_CPU_TIMES' = r.previous_cpu
          /\ processes' = IF r.ran_processes /\ r.processes.raised = "none"
                          THEN r.processes.value ELSE processes
          /\ listing' = IF looped THEN JsonList(env.processes) ELSE << >>
          /\ host_cores' = IF looped THEN env.os_cpu_count ELSE host_cores
          /\ cores' = IF looped THEN Some(CpuCount(env.os_cpu_count)) ELSE cores
          /\ host_table' = IF looped THEN env.table ELSE host_table
          /\ baseline_at' = [p \in DOMAIN baseline_at \cup stored |->
                                IF p \in stored THEN clock ELSE baseline_at[p]]
          /\ IF r.raised = "none"
             THEN /\ snapshot' = Some(r.snapshot)
                  /\ exc' = None
                  /\ pc' = "post"
             ELSE /\ snapshot' = snapshot
                  /\ exc' = Some([type |-> r.raised, origin |-> "_collect_snapshot"])
                  /\ pc' = "except"
    /\ all_failed' = \A r \in {env.cpu, env.memory, env.disks, env.processes,
                               env.events} : SourceFailed(r)
    /\ known_before' = DOMAIN PREVIOUS_CPU_TIMES
    /\ attempts' = 0
    /\ UNCHANGED <<sleep_time, log, last_call, set_backs, obs>>

Collect(env, d) == CollectCall(env, d) /\ UNCHANGED <<twin, sources>>

\* lines 324-329, forgetting the collection time when the delivery failed
PostCallRollback(outcome) ==
    /\ pc = "post"
    /\ clock + outcome.seconds <= MaxClock
    /\ clock' = clock + outcome.seconds
    /\ last_call' = [source |-> "urlopen", kind |-> outcome.kind,
                     status |-> outcome.status]
    /\ attempts' = attempts + 1
    /\ LET raised == PostSnapshot(snapshot[1], outcome)
       IN IF raised = "none"
          THEN /\ log' = Append(log, SuccessLine(snapshot[1]))
               /\ exc' = None
               /\ sleep_time' = Some(SleepTime(POLL_INTERVAL, clock' - started[1]))
               /\ pc' = "sleeping"
               /\ UNCHANGED PREVIOUS_COLLECTED_AT
          ELSE /\ exc' = Some([type |-> raised, origin |-> "_post_snapshot"])
               /\ pc' = "except"
               /\ PREVIOUS_COLLECTED_AT' = None
               /\ UNCHANGED <<log, sleep_time>>
    /\ UNCHANGED <<PREVIOUS_CPU_TIMES, started,
                   now, interval, processes, snapshot, listing, all_failed,
                   baseline_at, host_table, set_backs, known_before, obs, cores, host_cores,
                   sources>>

\* lines 324-329, calling _post_snapshot again when it raised
PostCallRetry(outcome) ==
    /\ pc = "post"
    /\ clock + outcome.seconds <= MaxClock
    /\ clock' = clock + outcome.seconds
    /\ last_call' = [source |-> "urlopen", kind |-> outcome.kind,
                     status |-> outcome.status]
    /\ attempts' = attempts + 1
    /\ LET raised == PostSnapshot(snapshot[1], outcome)
       IN IF raised = "none"
          THEN /\ log' = Append(log, SuccessLine(snapshot[1]))
               /\ exc' = None
               /\ sleep_time' = Some(SleepTime(POLL_INTERVAL, clock' - started[1]))
               /\ pc' = "sleeping"
          ELSE /\ exc' = IF attempts = 0 THEN None
                         ELSE Some([type |-> raised, origin |-> "_post_snapshot"])
               /\ pc' = IF attempts = 0 THEN "post" ELSE "except"
               /\ UNCHANGED <<log, sleep_time>>
    /\ UNCHANGED <<PREVIOUS_CPU_TIMES, PREVIOUS_COLLECTED_AT, started,
                   now, interval, processes, snapshot, listing, all_failed,
                   baseline_at, host_table, set_backs, known_before, obs, cores, host_cores,
                   sources>>

\* lines 324-329 and 333-334: _post_snapshot(snapshot), which takes
\* outcome.seconds; when it returns, the success line is printed and the
\* sleep computed from the time read at line 333
PostCall(outcome) ==
    /\ pc = "post"
    /\ clock + outcome.seconds <= MaxClock
    /\ clock' = clock + outcome.seconds
    /\ last_call' = [source |-> "urlopen", kind |-> outcome.kind,
                     status |-> outcome.status]
    /\ attempts' = attempts + 1
    /\ LET raised == PostSnapshot(snapshot[1], outcome)
       IN IF raised = "none"
          THEN /\ log' = Append(log, SuccessLine(snapshot[1]))
               /\ exc' = None
               /\ sleep_time' = Some(SleepTime(POLL_INTERVAL, clock' - started[1]))
               /\ pc' = "sleeping"
          ELSE /\ exc' = Some([type |-> raised, origin |-> "_post_snapshot"])
               /\ pc' = "except"
               /\ UNCHANGED <<log, sleep_time>>
    /\ UNCHANGED <<PREVIOUS_CPU_TIMES, PREVIOUS_COLLECTED_AT, started,
                   now, interval, processes, snapshot, listing, all_failed,
                   baseline_at, host_table, set_backs, known_before, obs, cores, host_cores,
                   sources>>

Post(outcome) == PostCall(outcome) /\ UNCHANGED twin

\* lines 330-331 re-raising instead of printing: the exception leaves main
HandleExceptionReraise ==
    /\ pc = "except"
    /\ pc' = "exited"
    /\ UNCHANGED <<clock, PREVIOUS_CPU_TIMES, PREVIOUS_COLLECTED_AT,
                   started, now, interval, processes, snapshot, exc, log, sleep_time,
                   listing, last_call, all_failed, baseline_at, host_table, set_backs,
                   known_before, obs, cores, host_cores, twin, attempts, sources>>

\* lines 330-334: the handler prints the error line and exc is unbound; then
\* the sleep is computed
HandleException ==
    /\ pc = "except"
    /\ log' = Append(log, ErrorLine(exc[1]))
    /\ exc' = None
    /\ sleep_time' = Some(SleepTime(POLL_INTERVAL, clock - started[1]))
    /\ pc' = "sleeping"
    /\ UNCHANGED <<clock, PREVIOUS_CPU_TIMES, PREVIOUS_COLLECTED_AT,
                   started, now, interval, processes, snapshot, listing,
                   last_call, all_failed, baseline_at, host_table, set_backs, known_before, obs, cores, host_cores, twin, attempts, sources>>

\* line 335: time.sleep(sleep_time), after which the next cycle begins; the
\* history of the cycle is cleared
Sleep ==
    /\ pc = "sleeping"
    /\ clock + sleep_time[1] <= MaxClock
    /\ clock' = clock + sleep_time[1]
    /\ pc' = "loop_top"
    /\ log' = << >>
    /\ last_call' = NoCall
    /\ all_failed' = FALSE
    /\ UNCHANGED <<PREVIOUS_CPU_TIMES, PREVIOUS_COLLECTED_AT, started,
                   now, interval, processes, snapshot, exc, sleep_time, listing,
                   baseline_at, host_table, set_backs, known_before, obs, cores, host_cores, twin, attempts, sources>>

\* the wall clock is set back by k seconds while the agent sleeps (lines 265,
\* 321 and 333 read time.time(), which follows the system clock)
ClockSetBack(k) ==
    /\ pc = "sleeping"
    /\ set_backs < MaxSetBacks
    /\ clock >= k
    /\ clock' = clock - k
    /\ set_backs' = set_backs + 1
    /\ UNCHANGED <<PREVIOUS_CPU_TIMES, PREVIOUS_COLLECTED_AT, pc,
                   started, now, interval, processes, snapshot, exc, log, sleep_time,
                   listing, last_call, all_failed, baseline_at, host_table, known_before, obs, cores, host_cores, twin, attempts, sources>>

Next ==
    \/ \E env \in LoopEnvironments, d \in CollectLatencies : Collect(env, d)
    \/ \E outcome \in PostOutcomes : Post(outcome)
    \/ HandleException
    \/ Sleep

Spec == Init /\ [][Next]_vars

\* main() is one thread that runs whenever it can: each statement of the loop
\* is eventually executed
FairSpec ==
    /\ Spec
    /\ WF_vars(\E env \in LoopEnvironments, d \in CollectLatencies : Collect(env, d))
    /\ WF_vars(\E outcome \in PostOutcomes : Post(outcome))
    /\ WF_vars(HandleException)
    /\ WF_vars(Sleep)

----------------------------------------------------------------------------
(* SpecSkew: the same loop on a host whose wall clock is set back, so that *)
(* a collection can read a time at or before the previous one's.  The four *)
(* other sources are healthy or wmic is missing; delivery succeeds or the   *)
(* network fails.                                                           *)

SkewEnvironments ==
    {Environment(other, run, n) :
        other \in {Healthy, WmicMissing}, run \in ProcessRuns, n \in LoopCpuCounts}

SkewOutcomes == {Answered(200, 0), Unreachable}

NextSkew ==
    \/ \E env \in SkewEnvironments, d \in CollectLatencies : Collect(env, d)
    \/ \E outcome \in SkewOutcomes : Post(outcome)
    \/ HandleException
    \/ Sleep
    \/ \E k \in ClockSetBacks : ClockSetBack(k)

SpecSkew == Init /\ [][NextSkew]_vars

----------------------------------------------------------------------------
(* SpecTwin: two runs of the agent side by side.  Both read the same clock  *)
(* and get the same output from every command; each delivery of each run    *)
(* succeeds or fails on its own.  The first run is the state of the model,  *)
(* the second is twin.                                                      *)

TwinEnvironments ==
    {Environment(other, run, n) :
        other \in {Healthy, EventsNotObjects}, run \in ProcessRuns, n \in LoopCpuCounts}

TwinOutcomes == {Answered(200, 0), Answered(500, 0), Unreachable}

\* line 323 in both runs
TwinCollect(env, d) ==
    /\ CollectCall(env, d)
    /\ UNCHANGED sources
    /\ \E r \in {CollectSnapshot(env, clock, twin.PREVIOUS_COLLECTED_AT,
                                  twin.PREVIOUS_CPU_TIMES, POLL_INTERVAL)} :
          twin' = [PREVIOUS_CPU_TIMES |-> r.previous_cpu,
                   PREVIOUS_COLLECTED_AT |-> r.previous_collected_at,
                   snapshot |-> IF r.raised = "none" THEN Some(r.snapshot)
                                ELSE twin.snapshot,
                   raised |-> r.raised,
                   delivery |-> "none",
                   differed |-> twin.differed]

\* line 324 in both runs: the first run's urlopen meets outcome, the second
\* run's meets other; _post_snapshot reads its payload and assigns no global
TwinPost(outcome, other) ==
    /\ PostCall(outcome)
    /\ twin.snapshot # None
    /\ LET mine == PostSnapshot(snapshot[1], outcome)
           theirs == PostSnapshot(twin.snapshot[1], other)
       IN twin' = [twin EXCEPT !.delivery = theirs,
                               !.differed = @ \/ (mine # theirs)]

NextTwin ==
    \/ \E env \in TwinEnvironments, d \in CollectLatencies : TwinCollect(env, d)
    \/ \E outcome \in TwinOutcomes, other \in TwinOutcomes : TwinPost(outcome, other)
    \/ HandleException
    \/ Sleep

SpecTwin == Init /\ [][NextTwin]_vars

\* C13: the outcome of a delivery does not reach later collections: two runs
\* with the same source outputs and clock readings, whichever of their
\* deliveries succeed or fail, hold the same _PREVIOUS_CPU_TIMES and
\* _PREVIOUS_COLLECTED_AT after every step, their collections return the
\* same snapshot (each cpu_percent included) or raise the same exception.
C13_DeliveryDoesNotInfluenceCollection ==
    /\ twin.PREVIOUS_CPU_TIMES = PREVIOUS_CPU_TIMES
    /\ twin.PREVIOUS_COLLECTED_AT = PREVIOUS_COLLECTED_AT
    /\ twin.snapshot = snapshot
    /\ pc = "post" => twin.raised = "none"
    /\ (pc = "except" /\ exc # None /\ exc[1].origin = "_collect_snapshot") =>
           twin.raised = exc[1].type

\* C13 witness: after a delivery that failed in one run and succeeded in the
\* other, both runs collected the same snapshot, with a cpu_percent in it
C13_Witness ==
    /\ twin.differed
    /\ pc = "post"
    /\ twin.snapshot = snapshot
    /\ \E i \in 1..Len(snapshot[1].processes) :
           snapshot[1].processes[i].cpu_percent # None

----------------------------------------------------------------------------
(* SpecSources: the polling loop, remembering what each of the five        *)
(* commands of the latest collection met                                   *)

SourcesCollect(env, d) ==
    /\ CollectCall(env, d)
    /\ sources' = [cpu |-> env.cpu, memory |-> env.memory, disks |-> env.disks,
                   processes |-> env.processes, events |-> env.events]
    /\ UNCHANGED twin

NextSources ==
    \/ \E env \in LoopEnvironments, d \in CollectLatencies : SourcesCollect(env, d)
    \/ \E outcome \in PostOutcomes : Post(outcome)
    \/ HandleException
    \/ Sleep

SpecSources == Init /\ [][NextSources]_vars

----------------------------------------------------------------------------
(* SpecObserve: single observations fed through lines 196-202, one pid at a *)
(* time, with the elapsed interval and the core count free per observation *)

ObsPids == {1, 2}
ObsCpuSeconds == {8, 10, 15}
ObsElapsed == {-5, 0, 10}
ObsCores == {1, 2}

InitObserve ==
    /\ InitGlobals
    /\ pc = "observe"

Observe(pid, c, e, n) ==
    /\ pc = "observe"
    /\ LET previous_cpu == DictGet(PREVIOUS_CPU_TIMES, pid)
           percent == CpuPercent(previous_cpu, c, e, n)
       IN /\ PREVIOUS_CPU_TIMES' = StoreBaseline(PREVIOUS_CPU_TIMES, pid, c, percent)
          /\ obs' = [pid |-> pid, cpu_seconds |-> c, elapsed |-> e, cores |-> n,
                     result |-> percent,
                     earlier |-> DictGet(obs.latest, pid),
                     latest |-> DictSet(obs.latest, pid, c)]
    /\ UNCHANGED <<clock, PREVIOUS_COLLECTED_AT, pc, started, now,
                   interval, processes, snapshot, exc, log, sleep_time, listing, last_call, all_failed, baseline_at,
                   host_table, set_backs, known_before, cores, host_cores, twin, attempts, sources>>

NextObserve ==
    \E pid \in ObsPids, c \in ObsCpuSeconds, e \in ObsElapsed, n \in ObsCores :
        Observe(pid, c, e, n)

SpecObserve == InitObserve /\ [][NextObserve]_vars

Observed == obs.pid # 0

\* C1 as stated: the first observation of a pid yields an absent cpu_percent
\* and every later observation of it yields a value that is >= 0.
C1_FirstAbsentLaterValue ==
    Observed =>
        /\ obs.earlier = None => obs.result = None
        /\ obs.earlier # None => (obs.result # None /\ obs.result[1][1] >= 0)

\* C1, amended: the first observation of a pid yields an absent cpu_percent;
\* a later observation yields absent exactly when its elapsed interval is
\* <= 0 and otherwise a value that is >= 0.
C1_FirstAbsentLaterNonNegative ==
    Observed =>
        /\ obs.earlier = None => obs.result = None
        /\ (obs.earlier # None /\ obs.elapsed <= 0) => obs.result = None
        /\ (obs.earlier # None /\ obs.elapsed > 0) =>
               (obs.result # None /\ obs.result[1][1] >= 0 /\ obs.result[1][2] > 0)

\* C1 witness: a counter regression (10 then 8) observed over a positive interval
C1_Witness ==
    /\ Observed
    /\ obs.earlier = Some(10)
    /\ obs.cpu_seconds = 8
    /\ obs.elapsed > 0
    /\ obs.result # None

\* C2: on a non-first observation with elapsed > 0 the result is
\* (max(cumulative - previous, 0) / elapsed) * 100 / cores, previous being the
\* cumulative value of the most recent earlier observation of the same pid;
\* 10 then 15 over 10 s on 1 core gives 50, and 10 then 8 gives exactly 0.
C2_UtilizationFormula ==
    (Observed /\ obs.earlier # None /\ obs.elapsed > 0) =>
        /\ obs.result # None
        /\ LET d == Max(obs.cpu_seconds - obs.earlier[1], 0)
               r == obs.result[1]
           IN /\ r[1] * (obs.elapsed * obs.cores) = (d * 100) * r[2]
              /\ r[2] > 0
        /\ (obs.earlier = Some(10) /\ obs.cpu_seconds = 15 /\ obs.elapsed = 10
            /\ obs.cores = 1) => obs.result = Some(<<50, 1>>)
        /\ (obs.earlier = Some(10) /\ obs.cpu_seconds = 8) => obs.result = Some(<<0, 1>>)

\* C2 witness: 10 then 15 CPU-seconds over 10 s on 1 core, reported as 50
C2_Witness ==
    /\ obs.earlier = Some(10)
    /\ obs.cpu_seconds = 15
    /\ obs.elapsed = 10
    /\ obs.cores = 1
    /\ obs.result = Some(<<50, 1>>)

----------------------------------------------------------------------------
(* SpecListing: calls of _collect_processes, each on what the pipeline of  *)
(* lines 150-154 prints for some process table of the host                 *)

ListingPids == {1, 2, 3}
ListingCpu == {Some(1), Some(5), Some(9)}
ListingIntervals == {10}
ListingCpuCounts == {Some(1)}

\* every process table with what the pipeline can print for it
ListingRuns ==
    UNION {{<<table, stdout>> : stdout \in GetProcessPipeline(table)} :
           table \in ProcessTables(ListingPids, ListingCpu)}

InitListing ==
    /\ InitGlobals
    /\ pc = "listing"

\* one call of _collect_processes, lines 147-220; os.cpu_count() is read at
\* line 174 only, which an empty or undecodable output does not reach
ListProcesses(table, stdout, e, n) ==
    /\ pc = "listing"
    /\ LET c == CollectProcesses(stdout, PREVIOUS_CPU_TIMES, e, n)
       IN /\ c.raised = "none"
          /\ processes' = c.value
          /\ PREVIOUS_CPU_TIMES' = c.previous
    /\ listing' = JsonList(stdout)
    /\ host_table' = table
    /\ interval' = Some(e)
    /\ host_cores' = IF RanProcessLoop(stdout) THEN n ELSE host_cores
    /\ cores' = IF RanProcessLoop(stdout) THEN Some(CpuCount(n)) ELSE cores
    /\ UNCHANGED <<clock, PREVIOUS_COLLECTED_AT, pc, started, now,
                   snapshot, exc, log, sleep_time,
                   last_call, all_failed, baseline_at, set_backs, known_before, obs, twin, attempts, sources>>

NextListing ==
    \E run \in ListingRuns :
        \E e \in ListingIntervals, n \in ListingCpuCounts :
            ListProcesses(run[1], run[2], e, n)

SpecListing == InitListing /\ [][NextListing]_vars

\* the cumulative CPU value Get-Process reported for a listed pid
RawCpu(pid) ==
    CpuSeconds((CHOOSE p \in host_table : p.Id = Some(pid)).CPU)

ProcessPids == [i \in 1..Len(processes) |-> processes[i].pid]

\* C7 as stated: the process list has at most the maximum count of entries, in
\* descending order of CPU consumption with ties broken by ascending pid.
C7_OrderedTiesByPid ==
    /\ Len(processes) <= MAX_PROCESSES
    /\ \A i, j \in 1..Len(processes) : i < j =>
           \/ RawCpu(processes[i].pid) > RawCpu(processes[j].pid)
           \/ /\ RawCpu(processes[i].pid) = RawCpu(processes[j].pid)
              /\ processes[i].pid < processes[j].pid

\* C7, amended: the process list has at most the maximum count of entries, in
\* descending order of CPU consumption; the order among processes of equal
\* CPU consumption is not determined.  No process left out consumed more
\* than a listed one.
C7_OrderedDescending ==
    /\ Len(processes) <= MAX_PROCESSES
    /\ Len(processes) = Min(MAX_PROCESSES, Cardinality(host_table))
    /\ \A i, j \in 1..Len(processes) : i < j =>
           RawCpu(processes[i].pid) >= RawCpu(processes[j].pid)
    /\ \A p \in host_table : \A i \in 1..Len(processes) :
           (\A k \in 1..Len(processes) : processes[k].pid # p.Id[1]) =>
               RawCpu(p.Id[1]) <= RawCpu(processes[i].pid)

\* C7 witness: the table {pid 1: 5, pid 2: 9, pid 3: 1} with maximum count 2
\* gives the pids 2 then 1
C7_Witness ==
    /\ host_table = {Process(1, Some(5)), Process(2, Some(9)), Process(3, Some(1))}
    /\ ProcessPids = <<2, 1>>

----------------------------------------------------------------------------
(* SpecRaw: calls of _collect_processes on any JSON of up to MAX_PROCESSES  *)
(* elements, among them listings the Get-Process pipeline of lines 150-154 *)
(* never prints (a pid repeated, an element without Id); the interval and  *)
(* os.cpu_count() free per call.  What holds for every such listing holds  *)
(* for the pipeline's; nothing is refuted from a listing only found here.  *)
(* pc stays "raw"; exc holds what the latest call raised.                  *)

RawPids == {1, 2}
RawCpuValues == {None, Some(4), Some(9)}
RawIntervals == {0, 10}
RawCpuCounts == {None, Some(0), Some(2)}

NoId == [Process(1, Some(4)) EXCEPT !.Id = None]

RawElements ==
    {Process(1, c) : c \in RawCpuValues} \cup {Process(2, Some(4)), NoId}

RawListings ==
    UNION {[1..n -> RawElements] : n \in 0..MAX_PROCESSES}
    \cup {<<Process(1, Some(4)), NotAnObject>>}

\* line 154, for the elements as they stand
RawStdout(data) ==
    IF Len(data) = 1 THEN Result("json_object", data) ELSE Result("json_array", data)

InitRaw ==
    /\ InitGlobals
    /\ pc = "raw"

CollectRaw(data, e, n) ==
    /\ pc = "raw"
    /\ \E c \in {CollectProcesses(RawStdout(data), PREVIOUS_CPU_TIMES, e, n)} :
          /\ PREVIOUS_CPU_TIMES' = c.previous
          /\ IF c.raised = "none"
             THEN /\ processes' = c.value
                  /\ exc' = None
             ELSE /\ processes' = processes
                  /\ exc' = Some([type |-> c.raised, origin |-> "_collect_processes"])
    /\ listing' = data
    /\ interval' = Some(e)
    /\ host_cores' = n
    /\ cores' = Some(CpuCount(n))
    /\ UNCHANGED <<clock, PREVIOUS_COLLECTED_AT, pc, started, now, snapshot, log,
                   sleep_time, last_call, all_failed, baseline_at, host_table,
                   set_backs, known_before, obs, twin, attempts, sources>>

NextRaw ==
    \E data \in RawListings, e \in RawIntervals, n \in RawCpuCounts :
        CollectRaw(data, e, n)

SpecRaw == InitRaw /\ [][NextRaw]_vars

\* the elements the loop of lines 177-218 went through: those before the
\* first one that is no JSON object
RECURSIVE Processed(_)
Processed(data) ==
    IF data = << >> \/ Head(data).type # "object" THEN << >>
    ELSE <<Head(data)>> \o Processed(Tail(data))

\* an element with a pid and a name (lines 183-189)
Valid(process) == process.Id # None /\ process.ProcessName # None

\* C11: after a call of _collect_processes the stored baseline of every pid
\* it processed is the cumulative CPU value of that pid's (last) element,
\* whether or not a percentage was computed for it; the baseline of every
\* pid that was not processed is what it was before the call, and no key is
\* dropped.
C11_BaselineStoredUnconditionally ==
    [][LET done == Processed(listing')
           stored == StoredPids(listing')
       IN /\ \A i \in 1..Len(done) :
                 (/\ Valid(done[i])
                  /\ \A j \in (i + 1)..Len(done) : done[j].Id # done[i].Id) =>
                     /\ done[i].Id[1] \in DOMAIN PREVIOUS_CPU_TIMES'
                     /\ PREVIOUS_CPU_TIMES'[done[i].Id[1]] = CpuSeconds(done[i].CPU)
          /\ DOMAIN PREVIOUS_CPU_TIMES' = DOMAIN PREVIOUS_CPU_TIMES \cup stored
          /\ \A p \in DOMAIN PREVIOUS_CPU_TIMES \ stored :
                 PREVIOUS_CPU_TIMES'[p] = PREVIOUS_CPU_TIMES[p]]_vars

\* C11 witness: with an interval of 0 pid 1 was listed with 9 CPU-seconds,
\* got no percentage, and its baseline is 9; pid 2, not listed, keeps its
\* baseline
C11_Witness ==
    /\ pc = "raw"
    /\ interval = Some(0)
    /\ listing = <<Process(1, Some(9))>>
    /\ processes # << >>
    /\ processes[1].cpu_percent = None
    /\ PREVIOUS_CPU_TIMES = (1 :> 9) @@ (2 :> 4)

\* the pids of the elements lines 183-189 accept, in the order listed
RECURSIVE ListedPids(_)
ListedPids(data) ==
    IF data = << >> THEN << >>
    ELSE (IF Valid(Head(data)) THEN <<Head(data).Id[1]>> ELSE << >>)
         \o ListedPids(Tail(data))

NoRepeat(s) == \A i, j \in 1..Len(s) : i # j => s[i] # s[j]

\* C16: for every listing the Get-Process pipeline returns, whether one call
\* or a later one with baselines stored, no two entries of the process list
\* carry the same pid, and every entry is a process of the host's table.
C16_PidsUnique ==
    /\ NoRepeat(ProcessPids)
    /\ \A i \in 1..Len(processes) :
           \E p \in host_table : p.Id = Some(processes[i].pid)

\* C16 witness: of three processes of equal CPU consumption, listed a second
\* time, two were kept, with different pids and a percentage each
C16_Witness ==
    /\ pc = "listing"
    /\ host_table = {Process(1, Some(5)), Process(2, Some(5)), Process(3, Some(5))}
    /\ Len(processes) = 2
    /\ processes[1].pid # processes[2].pid
    /\ \A i \in 1..2 : processes[i].cpu_percent # None

\* C18: when os.cpu_count() reports no or zero cores the core count used is
\* 1; the core count used is never below 1, no call raises
\* ZeroDivisionError, and every percentage computed is a proper quotient.
C18_ZeroCoresCountAsOne ==
    (pc = "raw" /\ cores # None) =>
        /\ host_cores \in {None, Some(0)} => cores = Some(1)
        /\ (host_cores # None /\ host_cores[1] > 0) => cores = host_cores
        /\ cores[1] >= 1
        /\ exc # None => exc[1].type # "ZeroDivisionError"
        /\ exc = None =>
               \A i \in 1..Len(processes) :
                   processes[i].cpu_percent # None =>
                       /\ processes[i].cpu_percent[1] # DivisionByZero
                       /\ processes[i].cpu_percent[1][2] > 0

\* C18 witness: the host reported 0 cores; pid 1 went from 4 to 9 CPU-seconds
\* in 10 s and is reported at 50 percent, as on one core
C18_Witness ==
    /\ pc = "raw"
    /\ host_cores = Some(0)
    /\ interval = Some(10)
    /\ exc = None
    /\ listing = <<Process(1, Some(9))>>
    /\ processes[1].cpu_percent = Some(<<50, 1>>)

----------------------------------------------------------------------------
(* Claims about the loop *)

SnapshotProcesses == IF snapshot = None THEN << >> ELSE snapshot[1].processes

\* C3: in the snapshot of a cycle a process's cpu_percent is present only if
\* a baseline for its pid was stored before the collection and the elapsed
\* interval is > 0; when the interval is <= 0 every cpu_percent of the
\* snapshot is absent, and the collection raises no arithmetic error.
C3_PercentNeedsBaselineAndInterval ==
    /\ pc = "post" =>
          /\ \A i \in 1..Len(SnapshotProcesses) :
                 SnapshotProcesses[i].cpu_percent # None =>
                     /\ SnapshotProcesses[i].pid \in known_before
                     /\ interval[1] > 0
          /\ interval[1] <= 0 =>
                 \A i \in 1..Len(SnapshotProcesses) :
                     SnapshotProcesses[i].cpu_percent = None
    /\ (pc = "except" /\ exc # None) => exc[1].type # "ZeroDivisionError"

\* C3 witness: a snapshot collected after the clock was set back, with an
\* interval <= 0, listing a pid that had a baseline, its cpu_percent absent
C3_Witness ==
    /\ pc = "post"
    /\ interval[1] <= 0
    /\ \E i \in 1..Len(SnapshotProcesses) :
           /\ SnapshotProcesses[i].pid \in known_before
           /\ SnapshotProcesses[i].cpu_percent = None

\* C4: _collect_snapshot never raises, however its sub-sources fail; when all
\* five fail the snapshot has cpu_percent and memory absent, disks, processes
\* and events empty, and agent_id, hostname and collected_at populated.
C4_AssembleNeverRaises ==
    /\ (pc = "except" /\ exc # None) => exc[1].origin # "_collect_snapshot"
    /\ (pc = "post" /\ all_failed) =>
          /\ snapshot[1].metrics.cpu_percent = None
          /\ snapshot[1].metrics.memory = NoMemory
          /\ snapshot[1].metrics.disks = << >>
          /\ snapshot[1].processes = << >>
          /\ snapshot[1].events = << >>
          /\ snapshot[1].agent_id = AGENT_ID
          /\ snapshot[1].hostname = HOSTNAME
          /\ snapshot[1].collected_at = now[1]

LoopStates == {"loop_top", "post", "except", "sleeping"}

\* C5: no failure of a cycle ends the loop: whether the cycle delivered,
\* failed to deliver or raised, the loop reaches the sleep, and from the
\* sleep it starts the next cycle (as far as the clock of the model runs);
\* the loop has no other state.
C5_LoopNeverTerminates ==
    /\ [](pc \in LoopStates)
    /\ (pc \in {"loop_top", "post", "except"}) ~> (pc = "sleeping")
    /\ (pc = "sleeping" /\ clock + sleep_time[1] <= MaxClock) ~> (pc = "loop_top")

\* C5 witness: a cycle that raised has reached the sleep and will wake
C5_Witness ==
    /\ pc = "sleeping"
    /\ Len(log) = 1
    /\ log[1].stream = "stderr"
    /\ clock + sleep_time[1] <= MaxClock

\* nominal intervals near zero and cycle durations, for line 334 alone
NearZeroIntervals == {0, 1, 4}
CycleDurations == {0, 1, 3, 10, 35}

\* C6: the sleep is max(nominal - cycleElapsed, floor), cycleElapsed being the
\* time from the cycle's start to the end of collection and delivery; it is
\* never below the floor and never negative, also for a cycle longer than
\* the nominal interval and for a nominal interval near zero.
C6_SleepIsMaxOfRemainderAndFloor ==
    /\ pc = "sleeping" =>
           LET cycleElapsed == clock - started[1]
               remainder == POLL_INTERVAL - cycleElapsed
           IN /\ sleep_time[1] = (IF remainder > MinimumSleep THEN remainder
                                                            ELSE MinimumSleep)
              /\ sleep_time[1] >= MinimumSleep
              /\ sleep_time[1] >= 0
    /\ \A nominal \in NearZeroIntervals, cycleElapsed \in CycleDurations :
           /\ SleepTime(nominal, cycleElapsed) = MinimumSleep
           /\ SleepTime(nominal, cycleElapsed) >= 0

\* C6 witness: a cycle that took longer than the nominal interval sleeps the floor
C6_Witness ==
    /\ pc = "sleeping"
    /\ clock - started[1] > POLL_INTERVAL
    /\ sleep_time = Some(MinimumSleep)

Delivered == last_call.source = "urlopen"
\* the server gave no 2xx answer to the POST
DeliveryFailed ==
    \/ last_call.kind # "response"
    \/ last_call.status < 200
    \/ last_call.status >= 300

\* C8 as stated: _post_snapshot reports every failure (a status of 400 or
\* more, a network failure, a timeout) as an outcome and lets no exception
\* escape; a cycle whose POST was answered with a 2xx or 3xx status ends as
\* a success.
C8_ErrorsReportedNotRaised ==
    Delivered =>
        /\ ~(pc = "except" /\ exc # None /\ exc[1].origin = "_post_snapshot")
        /\ (/\ last_call.kind = "response"
            /\ last_call.status >= 200
            /\ last_call.status < 400
            /\ pc = "sleeping") => log = <<SuccessLine(snapshot[1])>>

\* C8 witness: the server answered the POST with a 3xx status, and the
\* handler of main holds the HTTPError that left _post_snapshot
C8_Witness ==
    /\ Delivered
    /\ last_call.kind = "response"
    /\ last_call.status >= 300
    /\ last_call.status < 400
    /\ pc = "except"
    /\ exc = Some([type |-> "HTTPError", origin |-> "_post_snapshot"])

\* C9: every cycle prints exactly one line: a cycle that collected and
\* delivered prints the success line with the agent identity and no failure
\* line; a cycle that failed prints one failure line with the cause and no
\* success line.
C9_OneLogLinePerCycle ==
    /\ pc \in {"loop_top", "post", "except"} => log = << >>
    /\ pc = "sleeping" =>
          /\ Len(log) = 1
          /\ (Delivered /\ ~DeliveryFailed) =>
                 /\ log[1].stream = "stdout"
                 /\ log[1].detail = AGENT_ID
          /\ (Delivered /\ DeliveryFailed) =>
                 /\ log[1].stream = "stderr"
                 /\ log[1].detail \in {"HTTPError", "URLError", "TimeoutError"}
          /\ ~Delivered =>
                 /\ log[1].stream = "stderr"
                 /\ log[1].detail \in {"FileNotFoundError", "AttributeError"}

\* C9 witness: a cycle that delivered has printed its one success line
C9_Witness ==
    /\ pc = "sleeping"
    /\ Delivered
    /\ log = <<[stream |-> "stdout", text |-> "Sent metrics for", detail |-> AGENT_ID]>>

\* C10: whenever a cpu_percent is present, the interval that divided it is
\* the wall-clock time between the collection that stored the pid's baseline
\* and the current collection.
C10_DenominatorIsBaselineGap ==
    [][(pc = "loop_top" /\ pc' = "post") =>
           \A i \in 1..Len(snapshot'[1].processes) :
               snapshot'[1].processes[i].cpu_percent # None =>
                   interval'[1] = now'[1] - baseline_at[snapshot'[1].processes[i].pid]]_vars

\* a step that is one call of _collect_snapshot, returning or raising
CollectStep == pc = "loop_top" /\ pc' \in {"post", "except"}

\* C12: in each call of _collect_snapshot the interval is now minus the
\* previous collection's now, or the nominal interval when no collection has
\* started before; the call sets _PREVIOUS_COLLECTED_AT to now whether or not
\* a sub-source fails or the call raises, and nothing else, delivery and its
\* failure included, changes it.
C12_IntervalAndPreviousCollectedAt ==
    [][/\ CollectStep =>
              /\ now' = Some(clock)
              /\ PREVIOUS_COLLECTED_AT = None => interval' = Some(POLL_INTERVAL)
              /\ PREVIOUS_COLLECTED_AT # None =>
                     interval' = Some(clock - PREVIOUS_COLLECTED_AT[1])
              /\ PREVIOUS_COLLECTED_AT' = Some(clock)
       /\ ~CollectStep => PREVIOUS_COLLECTED_AT' = PREVIOUS_COLLECTED_AT
       /\ PREVIOUS_COLLECTED_AT' = now']_vars

\* C12 witness: the first cycle took 35 s and slept 5; the second call, at
\* 40, raised, and still measured 40 s and recorded 40
C12_Witness ==
    /\ pc = "except"
    /\ exc # None
    /\ exc[1].origin = "_collect_snapshot"
    /\ now = Some(40)
    /\ interval = Some(40)
    /\ PREVIOUS_COLLECTED_AT = Some(40)

\* C14: nothing is retried and cycles do not overlap: a cycle calls
\* _post_snapshot at most once, only from line 324 after its collection
\* returned, with the snapshot collected in that cycle (never one of an
\* earlier cycle), and not at all when its collection raised; the handler
\* sends nothing; the sleep is entered only from the delivery or the handler,
\* and the next cycle begins only from the sleep, sleep_time later.
C14_OneAttemptNoOverlap ==
    /\ [](attempts <= 1)
    /\ []((pc = "except" /\ exc # None /\ exc[1].origin = "_collect_snapshot") =>
              attempts = 0)
    /\ [][/\ attempts' > attempts =>
                 /\ pc = "post"
                 /\ attempts = 0
                 /\ snapshot # None
                 /\ snapshot[1].collected_at = now[1]
                 /\ now[1] >= started[1]
          /\ pc = "except" => attempts' = attempts
          /\ (pc' = "sleeping" /\ pc # "sleeping") => pc \in {"post", "except"}
          /\ (pc' = "loop_top" /\ pc # "loop_top") =>
                 /\ pc = "sleeping"
                 /\ clock' = clock + sleep_time[1]]_vars

\* C14 witness: in a later cycle the one delivery attempt failed and the
\* handler is reached with no second attempt
C14_Witness ==
    /\ pc = "except"
    /\ exc # None
    /\ exc[1].origin = "_post_snapshot"
    /\ attempts = 1
    /\ started[1] > 0

\* the collection of the cycle has ended and nothing was sent yet
Collected == pc \in {"post", "except"} /\ attempts = 0

\* C15: failures of the sub-sources are isolated: whatever the other sources
\* met, a snapshot is assembled and the value it carries for a domain is what
\* that domain's own source output yields; a failing source turns only its
\* own field absent or empty.
C15_FailuresIsolated ==
    Collected =>
        /\ pc = "post"
        /\ snapshot[1].collected_at = now[1]
        /\ snapshot[1].metrics.cpu_percent = CollectCpuPercent(sources.cpu).value
        /\ snapshot[1].metrics.memory = CollectMemory(sources.memory).value
        /\ snapshot[1].metrics.disks = CollectDisks(sources.disks).value
        /\ snapshot[1].events = CollectEvents(sources.events).value
        /\ snapshot[1].processes = processes
        /\ Len(processes) = (IF SourceFailed(sources.processes) THEN 0
                             ELSE Len(JsonList(sources.processes)))

\* the cumulative CPU value of the last element naming pid p among those the
\* loop of lines 177-218 went through
LastObserved(data, p) ==
    LET done == Processed(data)
        named == {i \in 1..Len(done) : Valid(done[i]) /\ done[i].Id = Some(p)}
        last == CHOOSE i \in named : \A j \in named : j <= i
    IN CpuSeconds(done[last].CPU)

\* C17: no baseline is ever evicted: in every step the key set of
\* _PREVIOUS_CPU_TIMES keeps every pid it had; the value of a pid the step
\* observed is the cumulative CPU value just observed, and the value of
\* every other pid is unchanged, also when the pid is not listed, the
\* process source is unavailable, or collection or delivery fails.
C17_BaselinesNeverEvicted ==
    [][/\ DOMAIN PREVIOUS_CPU_TIMES \subseteq DOMAIN PREVIOUS_CPU_TIMES'
       /\ \A p \in DOMAIN PREVIOUS_CPU_TIMES' :
              IF CollectStep /\ p \in StoredPids(listing')
              THEN PREVIOUS_CPU_TIMES'[p] = LastObserved(listing', p)
              ELSE /\ p \in DOMAIN PREVIOUS_CPU_TIMES
                   /\ PREVIOUS_CPU_TIMES'[p] = PREVIOUS_CPU_TIMES[p]]_vars

\* C17 witness: pids 1 and 2 were observed in an earlier cycle; the latest
\* collection raised before the process source was queried, and both
\* baselines are still there
C17_Witness ==
    /\ pc = "except"
    /\ exc # None
    /\ exc[1].origin = "_collect_snapshot"
    /\ listing = << >>
    /\ PREVIOUS_CPU_TIMES = (1 :> 1) @@ (2 :> 3)

\* C19 as stated: in the first snapshot an agent instance ever collects,
\* provided its listing names no pid twice, every cpu_percent is absent, and
\* so the nominal interval, the fallback of the first call, has divided no
\* cpu_percent of any snapshot.
C19_FirstSnapshotHasNoPercent ==
    [][(CollectStep /\ pc' = "post" /\ NoRepeat(ListedPids(listing'))) =>
           /\ snapshot = None =>
                  \A i \in 1..Len(snapshot'[1].processes) :
                      snapshot'[1].processes[i].cpu_percent = None
           /\ (\E i \in 1..Len(snapshot'[1].processes) :
                   snapshot'[1].processes[i].cpu_percent # None) =>
                  /\ PREVIOUS_COLLECTED_AT # None
                  /\ interval' = Some(clock - PREVIOUS_COLLECTED_AT[1])]_vars

====
